---- MODULE Spec2Model ----
(***************************************************************************)
(* Model of bursavich.dev/crc: the crc32 and crc64 packages (Poly, its     *)
(* power table, multModP, x2NModP, Combine, Checksum, Update) and the      *)
(* lazily initialised well-known polynomials (internal/shared Val.Get,     *)
(* internal/lazy Value.Get).                                               *)
(*                                                                         *)
(* The two packages are the same code at nBits = 32 and nBits = 64, so     *)
(* every operator takes the width from the Poly it works on.  A W-bit      *)
(* unsigned integer is a tuple of W bits, most significant bit first:      *)
(* element 1 is bit W-1 and element W is bit 0.  In the reflected          *)
(* encoding element i+1 is therefore the coefficient of x^i.  Besides the  *)
(* real widths with the standard generators, the model instantiates the    *)
(* same code at widths 4 and 8, where whole ranges of generators and       *)
(* operands can be enumerated.                                             *)
(***************************************************************************)
EXTENDS Integers, Sequences, FiniteSets, TLC

VARIABLES pc, p, call, done, mu, val, nNew, gpc, gacc, ret, ncalls

vars == <<pc, p, call, done, mu, val, nNew, gpc, gacc, ret, ncalls>>

polyVars == <<pc, p, call>>
sharedVars == <<done, mu, val, nNew, gpc, gacc, ret, ncalls>>

(***************************************************************************)
(* Fixed-width unsigned integers.                                          *)
(***************************************************************************)

\* A function on 1..W as an explicit tuple (the value, not the rule computing it).
Tuple(f) == f \o << >>

\* The W-bit zero.
Zero(w) == Tuple([i \in 1..w |-> 0])

\* uintW(1) << j.
Bit(w, j) == Tuple([i \in 1..w |-> IF i = w - j THEN 1 ELSE 0])

\* ^uintW(0).
AllOnes(w) == Tuple([i \in 1..w |-> 1])

\* a ^ b.
Xor(a, b) == Tuple([i \in 1..Len(a) |-> (a[i] + b[i]) % 2])

\* ^a.
Not(a) == Tuple([i \in 1..Len(a) |-> 1 - a[i]])

\* a >> s.
Shr(a, s) == Tuple([i \in 1..Len(a) |-> IF i <= s THEN 0 ELSE a[i - s]])

\* a & 1.
LowBit(a) == a[Len(a)]

\* The W-bit value (W <= 16) of a natural number n, truncated to W bits.
BitsOf(w, n) == Tuple([i \in 1..w |-> (n \div (2 ^ (w - i))) % 2])

\* The W-bit value written as 16-bit pieces, most significant first.
RECURSIVE Pieces(_)
Pieces(hs) ==
    IF hs = << >> THEN << >> ELSE BitsOf(16, Head(hs)) \o Pieces(Tail(hs))

\* bits.Reverse32 / bits.Reverse64.
Reverse(a) == Tuple([i \in 1..Len(a) |-> a[Len(a) + 1 - i]])

(***************************************************************************)
(* multModP: (a(x) * b(x)) modulo p(x).  Panic is the value of a call that *)
(* ends in panic("crc32: invalid state").                                  *)
(***************************************************************************)

Panic == <<"panic">>

\* ShiftReduce without the reduction: b >>= 1 only.
ShiftNoReduce(poly, b) == Shr(b, 1)

\* One trip of the reduction at the bottom of multModP's loop:
\* xor := b&1 != 0; b >>= 1; if xor { b ^= p.poly }.
ShiftReduce(poly, b) ==
    IF LowBit(b) = 1 THEN Xor(Shr(b, 1), poly) ELSE Shr(b, 1)

\* multStep returning at a's last set bit before v ^= b.
multStepReturnEarly(poly, a, st, i) ==
    IF st.ret THEN st
    ELSE IF a[i] = 1
         THEN IF \A j \in (i + 1)..Len(a) : a[j] = 0
              THEN [v |-> st.v, b |-> st.b, ret |-> TRUE]
              ELSE [v |-> Xor(st.v, st.b), b |-> ShiftReduce(poly, st.b),
                    ret |-> FALSE]
         ELSE [v |-> st.v, b |-> ShiftReduce(poly, st.b), ret |-> FALSE]

\* One trip of multModP's loop, at mask m = 1 << (nBits - i) (element i of a is
\* a & m).  st.v and st.b are the loop's v and b; st.ret says that the loop
\* has executed "return v".
multStep(poly, a, st, i) ==
    IF st.ret THEN st
    ELSE IF a[i] = 1
         THEN IF \A j \in (i + 1)..Len(a) : a[j] = 0
              THEN [v |-> Xor(st.v, st.b), b |-> st.b, ret |-> TRUE]
              ELSE [v |-> Xor(st.v, st.b), b |-> ShiftReduce(poly, st.b),
                    ret |-> FALSE]
         ELSE [v |-> st.v, b |-> ShiftReduce(poly, st.b), ret |-> FALSE]

\* The trips lo..hi of multModP's loop, in order: the first half, and unless
\* that has returned, the second half.
RECURSIVE multLoop(_, _, _, _, _)
multLoop(poly, a, st, lo, hi) ==
    IF lo = hi THEN multStep(poly, a, st, lo)
    ELSE LET first == multLoop(poly, a, st, lo, (lo + hi) \div 2)
         IN  IF first.ret THEN first
             ELSE multLoop(poly, a, first, ((lo + hi) \div 2) + 1, hi)

\* var v uintW; the loop; panic when it ends without a return.
multModP(q, a, b) ==
    LET st == multLoop(q.poly, a,
                       [v |-> Zero(q.nBits), b |-> b, ret |-> FALSE],
                       1, q.nBits)
    IN  IF st.ret THEN st.v ELSE Panic

(***************************************************************************)
(* makePoly: the Poly and its table of x^(2^n).  x2nTbl[n] of the source   *)
(* is x2nTbl[n + 1] here.                                                  *)
(***************************************************************************)

\* makeStep multiplying by x instead of squaring: v = p.multModP(v, x).
makeStepTimesX(st, n) ==
    IF st.panicked THEN st
    ELSE [panicked |-> FALSE,
          v |-> multModP(st.poly, st.v, Bit(st.poly.nBits, st.poly.nBits - 2)),
          poly |-> [st.poly EXCEPT
                      !.x2nTbl[n + 1] =
                        multModP(st.poly, st.v,
                                 Bit(st.poly.nBits, st.poly.nBits - 2))]]

\* One trip of makePoly's loop: v = p.multModP(v, v); p.x2nTbl[n] = v.
\* st.panicked says that multModP has panicked: the table stays as it was.
makeStep(st, n) ==
    IF st.panicked THEN st
    ELSE IF multModP(st.poly, st.v, st.v) = Panic
         THEN [st EXCEPT !.panicked = TRUE]
         ELSE [panicked |-> FALSE,
               v |-> multModP(st.poly, st.v, st.v),
               poly |-> [st.poly EXCEPT
                           !.x2nTbl[n + 1] = multModP(st.poly, st.v, st.v)]]

\* The trips lo..hi of makePoly's loop, in order: the first half, and unless
\* that has panicked, the second half.
RECURSIVE makeLoop(_, _, _)
makeLoop(st, lo, hi) ==
    IF lo = hi THEN makeStep(st, lo)
    ELSE LET first == makeLoop(st, lo, (lo + hi) \div 2)
         IN  IF first.panicked THEN first
             ELSE makeLoop(first, ((lo + hi) \div 2) + 1, hi)

\* makePoly starting from v = 1 << (nBits - 1).
makePolySeedOne(w, poly) ==
    LET v == Bit(w, w - 1)
        q == [nBits |-> w, poly |-> poly,
              x2nTbl |-> Tuple([n \in 1..w |-> IF n = 1 THEN v ELSE Zero(w)])]
        st == makeLoop([panicked |-> FALSE, v |-> v, poly |-> q], 1, w - 1)
    IN  [panicked |-> st.panicked, poly |-> st.poly]

\* The Poly that makePoly builds, and whether building it panicked.
makePoly(w, poly) ==
    LET v == Bit(w, w - 2)
        q == [nBits |-> w, poly |-> poly,
              x2nTbl |-> Tuple([n \in 1..w |-> IF n = 1 THEN v ELSE Zero(w)])]
        st == makeLoop([panicked |-> FALSE, v |-> v, poly |-> q], 1, w - 1)
    IN  [panicked |-> st.panicked, poly |-> st.poly]

(***************************************************************************)
(* x2NModP, Combine.                                                       *)
(***************************************************************************)

\* The number of trips of x2NModP's loop: the bits of n up to its highest set bit.
RECURSIVE BitLen(_)
BitLen(n) == IF n = 0 THEN 0 ELSE 1 + BitLen(n \div 2)

\* Trip j (0, 1, ...) of x2NModP's loop: by then n has been shifted j times and
\* k incremented j times (n & 1 is n % 2, n >> j is n \div 2^j, and
\* k & (nBits - 1) is k % nBits, nBits being a power of two).
x2nStep(q, v, n, k, j) ==
    IF v = Panic THEN Panic
    ELSE IF (n \div (2 ^ j)) % 2 # 0
         THEN multModP(q, q.x2nTbl[((k + j) % q.nBits) + 1], v)
         ELSE v

\* The trips lo..hi of x2NModP's loop, in order: the first half, and unless
\* that has panicked, the second half.
RECURSIVE x2nLoop(_, _, _, _, _, _)
x2nLoop(q, v, n, k, lo, hi) ==
    IF lo > hi THEN v
    ELSE IF lo = hi THEN x2nStep(q, v, n, k, lo)
    ELSE LET first == x2nLoop(q, v, n, k, lo, (lo + hi) \div 2)
         IN  IF first = Panic THEN Panic
             ELSE x2nLoop(q, first, n, k, ((lo + hi) \div 2) + 1, hi)

\* n >= 0: the loop runs until n is 0.
x2NModP(q, n, k) ==
    x2nLoop(q, Bit(q.nBits, q.nBits - 1), n, k, 0, BitLen(n) - 1)

\* Combine testing n < 0 where the code tests n <= 0.
CombineStrictN(q, prev, next, n) ==
    IF prev = Zero(q.nBits) THEN next
    ELSE IF n < 0 THEN prev
    ELSE LET e == x2NModP(q, n, 3)
             m == IF e = Panic THEN Panic ELSE multModP(q, prev, e)
         IN  IF m = Panic THEN Panic ELSE Xor(m, next)

\* Combine without the test of prev == 0.
CombineNoZeroPrev(q, prev, next, n) ==
    IF n <= 0 THEN prev
    ELSE LET e == x2NModP(q, n, 3)
             m == IF e = Panic THEN Panic ELSE multModP(q, prev, e)
         IN  IF m = Panic THEN Panic ELSE Xor(m, next)

Combine(q, prev, next, n) ==
    IF prev = Zero(q.nBits) THEN next
    ELSE IF n <= 0 THEN prev
    ELSE LET e == x2NModP(q, n, 3)
             m == IF e = Panic THEN Panic ELSE multModP(q, prev, e)
         IN  IF m = Panic THEN Panic ELSE Xor(m, next)

\* Polynomial returns p.poly.
Polynomial(q) == q.poly

(***************************************************************************)
(* Checksum and Update hand the work to the standard library               *)
(* (hash/crc32.Update, hash/crc64.Update with the table of MakeTable).     *)
(* The table is the function of the polynomial that MakeTable computes,    *)
(* so entry i is computed where it is looked up.  A byte is a number in    *)
(* 0..255; the table-driven update needs a sum of at least 8 bits.         *)
(***************************************************************************)

\* One trip of MakeTable's inner loop:
\* if crc&1 == 1 { crc = (crc >> 1) ^ poly } else { crc >>= 1 }.
tableStep(poly, crc) ==
    IF LowBit(crc) = 1 THEN Xor(Shr(crc, 1), poly) ELSE Shr(crc, 1)

\* Entry i of MakeTable(poly): crc := i, then the 8 trips.
MakeTable(poly, i) ==
    LET c1 == tableStep(poly, i)
        c2 == tableStep(poly, c1)
        c3 == tableStep(poly, c2)
        c4 == tableStep(poly, c3)
        c5 == tableStep(poly, c4)
        c6 == tableStep(poly, c5)
        c7 == tableStep(poly, c6)
    IN  tableStep(poly, c7)

\* byte(crc) ^ v, widened to the table's entry type.
ByteIndex(crc, v) ==
    LET w == Len(crc)
        b == BitsOf(8, v)
    IN  Tuple([i \in 1..w |-> IF i <= w - 8 THEN 0 ELSE (crc[i] + b[i - (w - 8)]) % 2])

\* for _, v := range data { crc = tab[byte(crc)^v] ^ (crc >> 8) }: the bytes
\* lo..hi of data, in order: the first half, then the second (the sum keeps its
\* width; testing that makes the first half's sum a value before the second
\* half starts).
RECURSIVE updateLoop(_, _, _, _, _)
updateLoop(poly, crc, data, lo, hi) ==
    IF lo > hi THEN crc
    ELSE IF lo = hi
         THEN Xor(MakeTable(poly, ByteIndex(crc, data[lo])), Shr(crc, 8))
    ELSE LET first == updateLoop(poly, crc, data, lo, (lo + hi) \div 2)
         IN  IF Len(first) = Len(crc)
             THEN updateLoop(poly, first, data, ((lo + hi) \div 2) + 1, hi)
             ELSE first

\* crc = ^crc; the loop; return ^crc.
Update(q, sum, data) ==
    Not(updateLoop(q.poly, Not(sum), data, 1, Len(data)))

Checksum(q, data) == Update(q, Zero(q.nBits), data)

\* MakePoly: a well-known polynomial goes to its accessor, whose first Get runs
\* New, and New is makePoly of that polynomial (NextShared below models the
\* sharing); any other polynomial goes to makePoly directly.
MakePoly(w, poly) == makePoly(w, poly)

\* h := New(p); h.Write(a); h.Write(b); h.Sum32(): the standard library's digest
\* keeps crc = Update(crc, tab, data) and starts from 0.
HashSum(q, a, b) == Update(q, Update(q, Zero(q.nBits), a), b)

\* The body of testPoly's loop for one Poly: aSum, bSum, want, and the two
\* values compared with want.
testPoly(q, a, b) ==
    LET aSum == Checksum(q, a)
        bSum == Checksum(q, b)
    IN  [aSum |-> aSum, bSum |-> bSum,
         want |-> Update(q, aSum, b),
         hash |-> HashSum(q, a, b),
         got |-> Combine(q, aSum, bSum, Len(b))]

(***************************************************************************)
(* Inputs.                                                                 *)
(***************************************************************************)

\* Largest |n| passed to Combine and x2NModP besides the wrap-around lengths.
MaxN == 4

\* Longest data enumerated over Bytes.
MaxLen == 1

\* Goroutines calling the accessors, and the calls of Get they make in all.
NumCallers == 2
MaxCalls == 2

\* hash/crc32: IEEE = 0xedb88320, Castagnoli = 0x82f63b78, Koopman = 0xeb31d82e.
IEEEPoly == Pieces(<<60856, 33568>>)
CastagnoliPoly == Pieces(<<33526, 15224>>)
KoopmanPoly == Pieces(<<60209, 55342>>)

\* hash/crc64: ISO = 0xD800000000000000, ECMA = 0xC96C5795D7870F42.
ISOPoly == Pieces(<<55296, 0, 0, 0>>)
ECMAPoly == Pieces(<<51564, 22421, 55175, 3906>>)

\* The polys of the two test files.
Polys32 == {IEEEPoly, CastagnoliPoly, KoopmanPoly, Reverse(CastagnoliPoly)}
Polys64 == {ISOPoly, ECMAPoly, Reverse(ISOPoly)}

\* Generators of the 8-bit instance: 0, the reflected forms 0x8C, 0xB8, 0xE0 of
\* x^8+x^5+x^4+1, x^8+x^4+x^3+x^2+1, x^8+x^2+x+1, and 0x01, 0x80, 0xFF.
Polys8 == {BitsOf(8, v) : v \in {0, 140, 184, 224, 1, 128, 255}}

\* Every generator of the 4-bit instance.
Polys4 == {BitsOf(4, v) : v \in 0..15}

\* <<nBits, polynomial>> handed to MakePoly: the test files' polys and the
\* polynomial 0 at the two widths of the packages, and the small instances.
PolyInputs ==
    {<<4, v>> : v \in Polys4} \cup {<<8, v>> : v \in Polys8}
        \cup {<<32, v>> : v \in Polys32 \cup {Zero(32)}}
        \cup {<<64, v>> : v \in Polys64 \cup {Zero(64)}}

\* Operands: every 4-bit value; at the other widths 0, 1, 1 << (W-1),
\* 1 << (W-2), all ones and two mixed patterns.
Words(w) ==
    IF w = 4 THEN {BitsOf(4, v) : v \in 0..15}
    ELSE {Zero(w), Bit(w, 0), Bit(w, w - 1), Bit(w, w - 2), AllOnes(w),
          Tuple([i \in 1..w |-> i % 2]),
          Tuple([i \in 1..w |-> IF (i * i) % 5 = 1 THEN 1 ELSE 0])}

\* Lengths n: -MaxN..MaxN and, where an int of the model holds them, the first
\* lengths whose exponent index reaches nBits (3 + log2 n >= nBits).
NVals(w) ==
    (-MaxN..MaxN) \cup (IF w <= 32 THEN {2 ^ (w - 3), 2 ^ (w - 3) + 1} ELSE {})

\* Start indexes k of x2NModP.
KVals(w) == {0, 1, 2, 3, w - 1}

Bytes == {0, 49, 255}

RECURSIVE SeqsUpTo(_, _)
SeqsUpTo(S, n) ==
    IF n = 0 THEN {<< >>}
    ELSE SeqsUpTo(S, n - 1)
           \cup {Append(d, x) : d \in {e \in SeqsUpTo(S, n - 1) : Len(e) = n - 1},
                                x \in S}

\* Data: everything up to MaxLen bytes over Bytes, the 8 zero bytes of the test
\* cases, "1234" and "56789", and 32 bytes (the first length whose exponent
\* index reaches 8).
DataSet ==
    SeqsUpTo(Bytes, MaxLen)
        \cup {Tuple([i \in 1..8 |-> 0]), <<49, 50, 51, 52>>, <<53, 54, 55, 56, 57>>,
              Tuple([i \in 1..32 |-> 0]), Tuple([i \in 1..32 |-> (7 * i) % 256])}

(***************************************************************************)
(* The state: one Poly and the caller using it.                            *)
(*   pc    "start": MakePoly not yet called; "ready": the Poly is built    *)
(*         and the caller is between calls; "called": a call has just      *)
(*         returned (or panicked) and call holds it; "failed": makePoly    *)
(*         panicked, and p is the Poly as the panic left it;               *)
(*         "calledFailed": a call of multModP on that Poly has returned.   *)
(*   p     the Poly.                                                       *)
(*   call  the last call: its name, arguments and result.                  *)
(***************************************************************************)

NoPoly == [nBits |-> 0, poly |-> << >>, x2nTbl |-> << >>]
NoCall == [op |-> "none", args |-> << >>, ret |-> << >>]
Returned == <<"returned">>

Callers == 1..NumCallers
Accessors == {"IEEE", "Castagnoli", "Koopman", "ISO", "ECMA"}
Nil == [id |-> 0]

\* The Poly each accessor's New builds.
WellKnown ==
    [a \in Accessors |->
       CASE a = "IEEE" -> makePoly(32, IEEEPoly).poly
         [] a = "Castagnoli" -> makePoly(32, CastagnoliPoly).poly
         [] a = "Koopman" -> makePoly(32, KoopmanPoly).poly
         [] a = "ISO" -> makePoly(64, ISOPoly).poly
         [] a = "ECMA" -> makePoly(64, ECMAPoly).poly]

NoRet == [acc |-> "none", inst |-> Nil]

InitPoly ==
    /\ pc = "start"
    /\ p = NoPoly
    /\ call = NoCall

InitShared ==
    /\ done = [a \in Accessors |-> 0]
    /\ mu = [a \in Accessors |-> 0]
    /\ val = [a \in Accessors |-> Nil]
    /\ nNew = [a \in Accessors |-> 0]
    /\ gpc = [c \in Callers |-> "idle"]
    /\ gacc = [c \in Callers |-> "none"]
    /\ ret = [c \in Callers |-> NoRet]
    /\ ncalls = [c \in Callers |-> 0]

Init == InitPoly /\ InitShared

CallMakePoly ==
    /\ pc = "start"
    /\ \E in \in PolyInputs :
         LET r == MakePoly(in[1], in[2])
         IN  /\ p' = r.poly
             /\ pc' = IF r.panicked THEN "calledFailed" ELSE "called"
             /\ call' = [op |-> "MakePoly", args |-> in,
                         ret |-> IF r.panicked THEN Panic ELSE Returned]
    /\ UNCHANGED sharedVars

CallPolynomial ==
    /\ pc = "ready"
    /\ pc' = "called"
    /\ call' = [op |-> "Polynomial", args |-> << >>, ret |-> Polynomial(p)]
    /\ UNCHANGED <<p, sharedVars>>

CallChecksum ==
    /\ pc = "ready"
    /\ p.nBits >= 8
    /\ \E data \in DataSet :
         call' = [op |-> "Checksum", args |-> <<data>>, ret |-> Checksum(p, data)]
    /\ pc' = "called"
    /\ UNCHANGED <<p, sharedVars>>

CallUpdate ==
    /\ pc = "ready"
    /\ p.nBits >= 8
    /\ \E sum \in Words(p.nBits), data \in DataSet :
         call' = [op |-> "Update", args |-> <<sum, data>>,
                  ret |-> Update(p, sum, data)]
    /\ pc' = "called"
    /\ UNCHANGED <<p, sharedVars>>

CallCombine ==
    /\ pc = "ready"
    /\ \E prev \in Words(p.nBits), next \in Words(p.nBits), n \in NVals(p.nBits) :
         call' = [op |-> "Combine", args |-> <<prev, next, n>>,
                  ret |-> Combine(p, prev, next, n)]
    /\ pc' = "called"
    /\ UNCHANGED <<p, sharedVars>>

\* multModP is also called by makePoly on the Poly it is building, so it is
\* applied to every Poly makePoly has allocated, built or not.
CallMultModP ==
    /\ pc \in {"ready", "failed"}
    /\ \E a \in Words(p.nBits), b \in Words(p.nBits) :
         call' = [op |-> "multModP", args |-> <<a, b>>, ret |-> multModP(p, a, b)]
    /\ pc' = IF pc = "failed" THEN "calledFailed" ELSE "called"
    /\ UNCHANGED <<p, sharedVars>>

CallX2NModP ==
    /\ pc = "ready"
    /\ \E n \in {m \in NVals(p.nBits) : m >= 0}, k \in KVals(p.nBits) :
         call' = [op |-> "x2NModP", args |-> <<n, k>>, ret |-> x2NModP(p, n, k)]
    /\ pc' = "called"
    /\ UNCHANGED <<p, sharedVars>>

CallTestPoly ==
    /\ pc = "ready"
    /\ p.nBits >= 8
    /\ \E a \in DataSet, b \in DataSet :
         call' = [op |-> "testPoly", args |-> <<a, b>>, ret |-> testPoly(p, a, b)]
    /\ pc' = "called"
    /\ UNCHANGED <<p, sharedVars>>

\* The caller has taken the result and is ready for its next call.
Return ==
    /\ pc \in {"called", "calledFailed"}
    /\ pc' = IF pc = "called" THEN "ready" ELSE "failed"
    /\ call' = NoCall
    /\ UNCHANGED <<p, sharedVars>>

Next ==
    \/ CallMakePoly
    \/ CallPolynomial
    \/ CallChecksum
    \/ CallUpdate
    \/ CallCombine
    \/ CallMultModP
    \/ CallX2NModP
    \/ CallTestPoly
    \/ Return

Spec == Init /\ [][Next]_vars

(***************************************************************************)
(* Reference arithmetic in GF(2)[x] modulo p(x) = x^W + poly(x), written   *)
(* on coefficients: element i+1 of a W-bit value is the coefficient of     *)
(* x^i.  The product is formed in full (degree up to 2W-2) and then        *)
(* reduced from the top degree down.                                       *)
(***************************************************************************)

RefOne(w) == Tuple([i \in 1..w |-> IF i = 1 THEN 1 ELSE 0])
RefX(w) == Tuple([i \in 1..w |-> IF i = 2 THEN 1 ELSE 0])

\* The carry-less product: coefficient d-1 is the sum of a_i * b_j, i + j = d-1.
RefProduct(a, b) ==
    Tuple([d \in 1..(2 * Len(a) - 1) |->
             Cardinality({i \in 1..Len(a) :
                            /\ d + 1 - i \in 1..Len(b)
                            /\ a[i] = 1
                            /\ b[d + 1 - i] = 1}) % 2])

\* No coefficient of degree W or more is left.
RefReduced(poly, c) == \A j \in (Len(poly) + 1)..Len(c) : c[j] = 0

\* Cancel the coefficient of degree e >= W by adding x^(e-W) * p(x).
RefCancel(poly, c, e) ==
    IF c[e + 1] = 0 THEN c
    ELSE Tuple([j \in 1..Len(c) |->
                  IF j = e + 1 THEN 0
                  ELSE IF j > e - Len(poly) /\ j <= e
                       THEN (c[j] + poly[j - (e - Len(poly))]) % 2
                       ELSE c[j]])

\* Cancel the degrees hi, hi-1, ..., lo.
RECURSIVE RefReduce(_, _, _, _)
RefReduce(poly, c, hi, lo) ==
    IF hi < lo THEN c
    ELSE IF hi = lo THEN RefCancel(poly, c, hi)
    ELSE LET first == RefReduce(poly, c, hi, ((hi + lo) \div 2) + 1)
         IN  IF RefReduced(poly, first) THEN first
             ELSE RefReduce(poly, first, (hi + lo) \div 2, lo)

\* a(x) * b(x) mod p(x).
RefMul(poly, a, b) ==
    SubSeq(RefReduce(poly, RefProduct(a, b), 2 * Len(poly) - 2, Len(poly)),
           1, Len(poly))

\* v^(2^k): v squared k times.
RECURSIVE RefSquares(_, _, _)
RefSquares(poly, v, k) ==
    IF k = 0 THEN v
    ELSE IF k = 1 THEN RefMul(poly, v, v)
    ELSE LET first == RefSquares(poly, v, k \div 2)
         IN  IF first = Zero(Len(poly)) THEN first
             ELSE RefSquares(poly, first, k - (k \div 2))

\* The bits hi, hi-1, ..., lo of the exponent n folded into v, most significant
\* first: v := v^2, times x when the bit is set.
RECURSIVE RefPowBits(_, _, _, _, _)
RefPowBits(poly, v, n, hi, lo) ==
    IF hi < lo THEN v
    ELSE IF hi = lo
         THEN IF (n \div (2 ^ hi)) % 2 = 1
              THEN RefMul(poly, RefMul(poly, v, v), RefX(Len(poly)))
              ELSE RefMul(poly, v, v)
    ELSE LET first == RefPowBits(poly, v, n, hi, ((hi + lo) \div 2) + 1)
         IN  IF first = Zero(Len(poly)) THEN first
             ELSE RefPowBits(poly, first, n, (hi + lo) \div 2, lo)

\* x^n mod p(x), n >= 0.
RefPowX(poly, n) == RefPowBits(poly, RefOne(Len(poly)), n, BitLen(n) - 1, 0)

\* x^(n * 2^k) mod p(x) = (x^n)^(2^k).
RefX2N(poly, n, k) == RefSquares(poly, RefPowX(poly, n), k)

(***************************************************************************)
(* The well-known polynomials: shared.Val.Get (crc32) and lazy.Value.Get   *)
(* (crc64), the same code.  Get is v.once.Do(func() { v.val = v.New() })   *)
(* followed by return v.val, and sync.Once.Do is                           *)
(*     if o.done.Load() == 0 { o.doSlow(f) }                               *)
(*     doSlow: o.m.Lock(); defer o.m.Unlock()                              *)
(*             if o.done.Load() == 0 { defer o.done.Store(1); f() }        *)
(* Each goroutine c is at gpc[c] in a Get of the accessor gacc[c]:         *)
(*   "idle" outside Get, "do" at Do's load of done, "lock" at Lock,        *)
(*   "check" at doSlow's load of done, "new" before f, "store" before the  *)
(*   deferred Store, "unlock" before the deferred Unlock, "ret" at         *)
(*   return v.val.                                                         *)
(* done, mu (the goroutine holding the mutex, 0 when free), val and nNew   *)
(* (how many times New has run) are per accessor; ret[c] is what c's last  *)
(* Get returned and ncalls[c] how many Gets c has started.                 *)
(***************************************************************************)


\* The Gets started by the goroutines 1..n.
RECURSIVE CallsOf(_)
CallsOf(n) == IF n = 0 THEN 0 ELSE ncalls[n] + CallsOf(n - 1)

\* IEEE(), Castagnoli(), Koopman(), ISO(), ECMA(): enter Get.
GetCall(c, a) ==
    /\ gpc[c] = "idle"
    /\ CallsOf(NumCallers) < MaxCalls
    /\ gpc' = [gpc EXCEPT ![c] = "do"]
    /\ gacc' = [gacc EXCEPT ![c] = a]
    /\ ncalls' = [ncalls EXCEPT ![c] = @ + 1]
    /\ UNCHANGED <<done, mu, val, nNew, ret, polyVars>>

\* Do: if o.done.Load() == 0 { o.doSlow(f) }.
OnceDo(c) ==
    /\ gpc[c] = "do"
    /\ gpc' = [gpc EXCEPT ![c] = IF done[gacc[c]] = 0 THEN "lock" ELSE "ret"]
    /\ UNCHANGED <<done, mu, val, nNew, gacc, ret, ncalls, polyVars>>

\* doSlow: o.m.Lock().
OnceLock(c) ==
    /\ gpc[c] = "lock"
    /\ mu[gacc[c]] = 0
    /\ mu' = [mu EXCEPT ![gacc[c]] = c]
    /\ gpc' = [gpc EXCEPT ![c] = "check"]
    /\ UNCHANGED <<done, val, nNew, gacc, ret, ncalls, polyVars>>

\* doSlow running f without loading done again.
OnceCheckNoReload(c) ==
    /\ gpc[c] = "check"
    /\ gpc' = [gpc EXCEPT ![c] = "new"]
    /\ UNCHANGED <<done, mu, val, nNew, gacc, ret, ncalls, polyVars>>

\* doSlow: if o.done.Load() == 0 { ... }.
OnceCheck(c) ==
    /\ gpc[c] = "check"
    /\ gpc' = [gpc EXCEPT ![c] = IF done[gacc[c]] = 0 THEN "new" ELSE "unlock"]
    /\ UNCHANGED <<done, mu, val, nNew, gacc, ret, ncalls, polyVars>>

\* f(): v.val = v.New(), New returning a pointer to a newly built Poly.
RunNew(c) ==
    /\ gpc[c] = "new"
    /\ val' = [val EXCEPT ![gacc[c]] =
                 [id |-> nNew[gacc[c]] + 1, obj |-> WellKnown[gacc[c]]]]
    /\ nNew' = [nNew EXCEPT ![gacc[c]] = @ + 1]
    /\ gpc' = [gpc EXCEPT ![c] = "store"]
    /\ UNCHANGED <<done, mu, gacc, ret, ncalls, polyVars>>

\* The deferred o.done.Store(1).
OnceStore(c) ==
    /\ gpc[c] = "store"
    /\ done' = [done EXCEPT ![gacc[c]] = 1]
    /\ gpc' = [gpc EXCEPT ![c] = "unlock"]
    /\ UNCHANGED <<mu, val, nNew, gacc, ret, ncalls, polyVars>>

\* The deferred o.m.Unlock().
OnceUnlock(c) ==
    /\ gpc[c] = "unlock"
    /\ mu' = [mu EXCEPT ![gacc[c]] = 0]
    /\ gpc' = [gpc EXCEPT ![c] = "ret"]
    /\ UNCHANGED <<done, val, nNew, gacc, ret, ncalls, polyVars>>

\* return v.val.
GetReturn(c) ==
    /\ gpc[c] = "ret"
    /\ ret' = [ret EXCEPT ![c] = [acc |-> gacc[c], inst |-> val[gacc[c]]]]
    /\ gpc' = [gpc EXCEPT ![c] = "idle"]
    /\ UNCHANGED <<done, mu, val, nNew, gacc, ncalls, polyVars>>

NextShared ==
    \/ \E c \in Callers, a \in Accessors : GetCall(c, a)
    \/ \E c \in Callers : OnceDo(c)
    \/ \E c \in Callers : OnceLock(c)
    \/ \E c \in Callers : OnceCheck(c)
    \/ \E c \in Callers : RunNew(c)
    \/ \E c \in Callers : OnceStore(c)
    \/ \E c \in Callers : OnceUnlock(c)
    \/ \E c \in Callers : GetReturn(c)

SpecShared == Init /\ [][NextShared]_vars

(***************************************************************************)
(* The claims.                                                             *)
(***************************************************************************)

\* The table of a built Poly, against the reference: nBits entries, entry 0 is
\* x, every later entry is the square of the one before it, and entry k is
\* x^(2^k) (computed from the exponent while an int of the model holds 2^k).
TableOK(q) ==
    /\ Len(q.x2nTbl) = q.nBits
    /\ q.x2nTbl[1] = RefX(q.nBits)
    /\ \A k \in 2..q.nBits :
         q.x2nTbl[k] = RefMul(q.poly, q.x2nTbl[k - 1], q.x2nTbl[k - 1])
    /\ \A k \in 1..q.nBits :
         k <= 31 => q.x2nTbl[k] = RefPowX(q.poly, 2 ^ (k - 1))

\* C1: for every Poly and all byte sequences a and b,
\* Combine(Checksum(a), Checksum(b), len(b)) equals Update(Checksum(a), b).
C1_CombineLaw ==
    call.op = "testPoly" => call.ret.got = call.ret.want

\* C1, short data only: the law holds whenever len(b) < 2^(nBits-3), that is
\* while x2NModP's table index stays below nBits.
C1_CombineLawShort ==
    (call.op = "testPoly" /\ (p.nBits > 8 \/ Len(call.args[2]) < 2 ^ (p.nBits - 3)))
        => call.ret.got = call.ret.want

\* C2 as stated: for every x, y and every n <= 0, Combine(x, y, n) returns x.
C2_EmptySuffixOriginal ==
    (call.op = "Combine" /\ call.args[3] <= 0) => call.ret = call.args[1]

\* C2 as amended: for every n <= 0, Combine(x, y, n) returns x when x # 0, and
\* returns y when x = 0.
C2_EmptySuffix ==
    (call.op = "Combine" /\ call.args[3] <= 0)
        => call.ret = IF call.args[1] = Zero(p.nBits) THEN call.args[2]
                      ELSE call.args[1]

\* A call Combine(x, y, n) with n < 0, x # 0 and y # x has returned x.
C2_Witness ==
    /\ call.op = "Combine"
    /\ call.args[3] < 0
    /\ call.args[1] # Zero(p.nBits)
    /\ call.args[2] # call.args[1]
    /\ call.ret = call.args[1]
    /\ p.nBits = 64

\* C3: MakePoly returns a Poly for every polynomial value of the two packages,
\* the polynomial 0 included: it never panics.
C3_MakePolyTotal ==
    (call.op = "MakePoly" /\ p.nBits >= 32) => call.ret # Panic

\* C3, every polynomial but 0: MakePoly returns for it, and for 0 it panics.
C3_MakePolyNonZero ==
    call.op = "MakePoly" => (call.ret = Panic <=> p.poly = Zero(p.nBits))

\* C4: for every accessor New runs at most once, and exactly once when done is
\* set; whatever a Get has returned is a stored instance (never the zero
\* value), is the accessor's val, holds the fully built Poly, and is the same
\* for every goroutine and every call.
C4_ExactlyOnce ==
    /\ \A a \in Accessors :
         /\ nNew[a] <= 1
         /\ done[a] = 1 => (nNew[a] = 1 /\ val[a] # Nil)
    /\ \A c \in Callers :
         ret[c] # NoRet =>
           /\ ret[c].inst # Nil
           /\ ret[c].inst = val[ret[c].acc]
           /\ ret[c].inst.obj = WellKnown[ret[c].acc]
    /\ \A c \in Callers, d \in Callers :
         (ret[c] # NoRet /\ ret[c].acc = ret[d].acc) => ret[c].inst = ret[d].inst

\* Two goroutines in a first Get of the same accessor: one has run New and not
\* yet set done, the other has loaded done = 0 and waits for the mutex.
C4_Witness ==
    \E c \in Callers, d \in Callers :
        /\ c # d
        /\ gacc[c] = gacc[d]
        /\ gpc[c] = "store"
        /\ gpc[d] = "lock"
        /\ ncalls[c] = 1
        /\ ncalls[d] = 1

\* C5: for every x and every n, Combine(0, x, n) returns x.
C5_EmptyPrefix ==
    (call.op = "Combine" /\ call.args[1] = Zero(p.nBits))
        => call.ret = call.args[2]

\* A call Combine(0, x, n) with x # 0 and n > 0 has returned x.
C5_Witness ==
    /\ call.op = "Combine"
    /\ call.args[1] = Zero(p.nBits)
    /\ call.args[2] # Zero(p.nBits)
    /\ call.args[3] > 0
    /\ call.ret = call.args[2]
    /\ p.nBits = 32

\* C6: x2NModP(n, 3), the call Combine makes, returns x^(n * 2^3) mod p(x) for
\* every Poly of the two packages and every n >= 0.
C6_X2NModP ==
    (call.op = "x2NModP" /\ p.nBits >= 32 /\ call.args[2] = 3)
        => call.ret = RefX2N(p.poly, call.args[1], call.args[2])

\* C6, while the table index stays below nBits (k + bits of n <= nBits): there
\* x2NModP(n, k) is x^(n * 2^k) mod p(x), for every width and generator.
C6_X2NModPNoWrap ==
    (call.op = "x2NModP" /\ call.args[2] + BitLen(call.args[1]) <= p.nBits)
        => call.ret = RefX2N(p.poly, call.args[1], call.args[2])

\* No step taken with a built Poly changes it.
PolyKept ==
    (pc \in {"ready", "called"}) => (p' = p)

\* C7: the table of a built Poly has nBits entries, entry k is x^(2^k) mod p(x),
\* each entry after the first is the square of the one before, and no call
\* changes the Poly.  (The table is compared when MakePoly returns, and in
\* every state at width 4.)
C7_PowerTable ==
    /\ [](((pc = "called" /\ call.op = "MakePoly")
             \/ (pc \in {"ready", "called"} /\ p.nBits = 4))
            => TableOK(p))
    /\ [][PolyKept]_vars

\* A Combine that multiplies has returned on the ECMA Poly, whose table is as
\* the reference says.
C7_Witness ==
    /\ pc = "called"
    /\ call.op = "Combine"
    /\ call.args[1] # Zero(p.nBits)
    /\ call.args[3] > 0
    /\ p.poly = ECMAPoly
    /\ TableOK(p)

\* C8 as stated: entry 0 of the table is multModP(seed, seed) with
\* seed = 1 << (nBits-2), which is x^2 mod p(x).
C8_TableBaseOriginal ==
    call.op = "MakePoly" =>
      /\ p.x2nTbl[1] = multModP(p, Bit(p.nBits, p.nBits - 2), Bit(p.nBits, p.nBits - 2))
      /\ p.x2nTbl[1] = RefPowX(p.poly, 2)

\* C8 as amended: entry 0 of the table is seed = 1 << (nBits-2) itself, which
\* is x mod p(x); multModP(seed, seed) = x^2 mod p(x) is entry 1.
C8_TableBase ==
    call.op = "MakePoly" =>
      /\ p.x2nTbl[1] = Bit(p.nBits, p.nBits - 2)
      /\ p.x2nTbl[1] = RefPowX(p.poly, 1)
      /\ p.x2nTbl[2] = multModP(p, Bit(p.nBits, p.nBits - 2), Bit(p.nBits, p.nBits - 2))
      /\ p.x2nTbl[2] = RefPowX(p.poly, 2)

\* MakePoly has returned the Poly of a 64-bit generator with x^2 reduced
\* (entry 1 is not 1 << (nBits-3)) ... or of the Castagnoli generator.
C8_Witness ==
    /\ pc = "called"
    /\ call.op = "MakePoly"
    /\ p.poly = CastagnoliPoly
    /\ p.x2nTbl[1] = Bit(32, 30)
    /\ p.x2nTbl[2] = Bit(32, 29)

\* C9: multModP(a, b) with a # 0 returns the product a(x) * b(x) mod p(x) of the
\* reference (so it has left through its return); with a = 0 it panics.
C9_MultModP ==
    call.op = "multModP" =>
      call.ret = IF call.args[1] = Zero(p.nBits) THEN Panic
                 ELSE RefMul(p.poly, call.args[1], call.args[2])

\* multModP has returned a product that needed reducing: a has bit 0 set (the
\* return comes in the last trip), and the result differs from b.
C9_Witness ==
    /\ call.op = "multModP"
    /\ p.poly = ECMAPoly
    /\ call.args[1] = AllOnes(64)
    /\ call.args[2] = AllOnes(64)
    /\ call.ret # Panic
    /\ call.ret # call.args[2]

\* C10: for a # 0 and b # 0, multModP(a, b) = multModP(b, a), and
\* multModP(1 << (nBits-1), b) = b.
C10_Commutative ==
    (call.op = "multModP" /\ call.args[1] # Zero(p.nBits))
      => /\ call.args[2] # Zero(p.nBits) => call.ret = multModP(p, call.args[2], call.args[1])
         /\ call.args[1] = Bit(p.nBits, p.nBits - 1) => call.ret = call.args[2]

\* multModP has returned for two different operands, neither 0 nor the identity.
C10_Witness ==
    /\ call.op = "multModP"
    /\ p.poly = KoopmanPoly
    /\ call.args[1] = AllOnes(32)
    /\ call.args[2] = Bit(32, 0)
    /\ call.ret = multModP(p, call.args[2], call.args[1])
    /\ call.ret # Zero(32)

====
